---------------------------- MODULE Spec2Model ----------------------------
(***************************************************************************)
(* CellGuardAI: the BMS telemetry pipeline of src/bms_features.py          *)
(* (sanitize_bms_csv, engineer_features), the synthetic telemetry source   *)
(* of src/live_simulator.py and the dashboard script of src/app.py.        *)
(*                                                                         *)
(* Numbers.  A float64 is modelled by an extended rational <<n, d>>:       *)
(*   d > 0   the finite value n/d in lowest terms,                         *)
(*   <<0,0>> NaN (also NaT in a datetime column),                          *)
(*   <<1,0>> +inf,  <<-1,0>> -inf.                                         *)
(* Arithmetic is exact; float rounding and the sign of zero are not        *)
(* modelled.  An irrational square root (cell_std) is kept exactly as      *)
(* <<n, d, 2>>, the positive root of n/d.  NaN propagates through          *)
(* arithmetic and every comparison with NaN is false, as in IEEE 754.      *)
(*                                                                         *)
(* Text.  A string that is parsed (a numeric field of a CSV) is a sequence *)
(* of one-character strings.  'Date' and 'Time' fields are whole strings.  *)
(*                                                                         *)
(* Tables.  A DataFrame is [n |-> rows, cols |-> column names in order,    *)
(* v |-> column name -> sequence of n cells].                              *)
(***************************************************************************)
EXTENDS Integers, Sequences, FiniteSets, TLC

(* ------------------------------ floats -------------------------------- *)

Abs(x) == IF x < 0 THEN -x ELSE x

Sign(x) == IF x < 0 THEN -1 ELSE IF x > 0 THEN 1 ELSE 0

RECURSIVE Gcd(_, _)
Gcd(a, b) == IF b = 0 THEN a ELSE Gcd(b, a % b)

NaN == <<0, 0>>

PosInf == <<1, 0>>

NegInf == <<-1, 0>>

\* The float n/d (d # 0) in lowest terms with a positive denominator.
Norm(n, d) ==
    LET g == Gcd(Abs(n), Abs(d))
        s == IF d < 0 THEN -1 ELSE 1
    IN  <<(s * n) \div g, (s * d) \div g>>

Num(k) == <<k, 1>>

IsNaN(x) == x[1] = 0 /\ x[2] = 0

IsInf(x) == x[1] # 0 /\ x[2] = 0

IsFinite(x) == x[2] > 0

\* pd.isna / pd.notna on a float or a datetime.
notna(x) == ~IsNaN(x)

FNeg(x) == <<-x[1], x[2]>>

FAdd(a, b) ==
    IF IsNaN(a) \/ IsNaN(b) THEN NaN
    ELSE IF IsInf(a) THEN (IF IsInf(b) /\ a[1] # b[1] THEN NaN ELSE a)
    ELSE IF IsInf(b) THEN b
    ELSE Norm(a[1] * b[2] + b[1] * a[2], a[2] * b[2])

FSub(a, b) == FAdd(a, FNeg(b))

FMul(a, b) ==
    IF IsNaN(a) \/ IsNaN(b) THEN NaN
    ELSE IF IsInf(a) \/ IsInf(b)
         THEN <<Sign(a[1]) * Sign(b[1]), 0>>      \* 0 * inf is NaN = <<0,0>>
    ELSE Norm(a[1] * b[1], a[2] * b[2])

FDiv(a, b) ==
    IF IsNaN(a) \/ IsNaN(b) THEN NaN
    ELSE IF IsInf(b) THEN (IF IsInf(a) THEN NaN ELSE Num(0))
    ELSE IF IsInf(a) THEN <<a[1] * (IF b[1] < 0 THEN -1 ELSE 1), 0>>
    ELSE IF b[1] = 0 THEN <<Sign(a[1]), 0>>       \* x/0 is +-inf, 0/0 is NaN
    ELSE Norm(a[1] * b[2], a[2] * b[1])

\* a < b; false when either is NaN.
FLt(a, b) ==
    /\ ~IsNaN(a)
    /\ ~IsNaN(b)
    /\ IF IsInf(a) /\ IsInf(b) THEN a[1] < b[1]
       ELSE IF IsInf(a) THEN a[1] < 0
       ELSE IF IsInf(b) THEN b[1] > 0
       ELSE a[1] * b[2] < b[1] * a[2]

FGt(a, b) == FLt(b, a)

FEq(a, b) == ~IsNaN(a) /\ ~IsNaN(b) /\ a = b

FLe(a, b) == FLt(a, b) \/ FEq(a, b)

FGe(a, b) == FLe(b, a)

FAbs(x) == <<Abs(x[1]), x[2]>>

(* ----------------------------- sequences ------------------------------ *)

Range(s) == {s[i] : i \in DOMAIN s}

\* The subsequence of s at the positions whose element satisfies keep.
SelectNotNa(s) == SelectSeq(s, notna)

RECURSIVE FoldSum(_, _)
FoldSum(s, i) == IF i = 0 THEN Num(0) ELSE FAdd(FoldSum(s, i - 1), s[i])

RECURSIVE FoldMin(_, _)
FoldMin(s, i) ==
    IF i = 1 THEN s[1]
    ELSE LET m == FoldMin(s, i - 1) IN IF FLt(s[i], m) THEN s[i] ELSE m

RECURSIVE FoldMax(_, _)
FoldMax(s, i) ==
    IF i = 1 THEN s[1]
    ELSE LET m == FoldMax(s, i - 1) IN IF FGt(s[i], m) THEN s[i] ELSE m

\* Series.min / .max / .sum / .mean with skipna=True: NaN entries are
\* left out; min, max and mean of nothing are NaN.
SkipnaMin(s) == LET t == SelectNotNa(s) IN IF t = <<>> THEN NaN ELSE FoldMin(t, Len(t))

SkipnaMax(s) == LET t == SelectNotNa(s) IN IF t = <<>> THEN NaN ELSE FoldMax(t, Len(t))

SkipnaMean(s) ==
    LET t == SelectNotNa(s)
    IN  IF t = <<>> THEN NaN ELSE FDiv(FoldSum(t, Len(t)), Num(Len(t)))

\* Series.diff(): s[i] - s[i-1], NaN in the first row.
Diff(s) == [i \in 1..Len(s) |-> IF i = 1 THEN NaN ELSE FSub(s[i], s[i - 1])]

\* Series.rolling(w).mean(): the mean of the last w rows; NaN until w rows
\* exist and whenever one of the w rows is NaN (min_periods = w).
RollingMean(s, w) ==
    [i \in 1..Len(s) |->
        IF i < w THEN NaN
        ELSE LET win == SubSeq(s, i - w + 1, i)
             IN  IF \E k \in 1..w : IsNaN(win[k]) THEN NaN
                 ELSE FDiv(FoldSum(win, w), Num(w))]

\* Series.clip(lo, hi): NaN stays NaN.
Clip(x, lo, hi) ==
    IF IsNaN(x) THEN NaN ELSE IF FLt(x, lo) THEN lo ELSE IF FGt(x, hi) THEN hi ELSE x


(* -------------------------------- text -------------------------------- *)

Digits == <<"0", "1", "2", "3", "4", "5", "6", "7", "8", "9">>

IsDigit(c) == \E k \in 1..10 : Digits[k] = c

DigitVal(c) == (CHOOSE k \in 1..10 : Digits[k] = c) - 1

RECURSIVE Pow10(_)
Pow10(k) == IF k = 0 THEN 1 ELSE 10 * Pow10(k - 1)

RECURSIVE DigitsVal(_, _)
DigitsVal(s, i) == IF i = 0 THEN 0 ELSE 10 * DigitsVal(s, i - 1) + DigitVal(s[i])

RECURSIVE NatDigits(_)
NatDigits(k) ==
    IF k < 10 THEN <<Digits[k + 1]>> ELSE Append(NatDigits(k \div 10), Digits[(k % 10) + 1])

RECURSIVE FracDigits(_, _, _)
FracDigits(r, d, left) ==
    IF r = 0 \/ left = 0 THEN <<>>
    ELSE <<Digits[((r * 10) \div d) + 1]>> \o FracDigits((r * 10) % d, d, left - 1)

\* str(x) of a float, as Series.astype(str) writes it: "nan", "inf",
\* "-inf", or sign, integer digits, ".", fraction digits ("80.0", "0.25").
\* Exact for the floats with a terminating decimal expansion of at most 17
\* fraction digits.
AsStr(x) ==
    IF IsNaN(x) THEN <<"n", "a", "n">>
    ELSE IF IsInf(x) THEN (IF x[1] < 0 THEN <<"-">> ELSE <<>>) \o <<"i", "n", "f">>
    ELSE LET a  == Abs(x[1])
             fr == FracDigits(a % x[2], x[2], 17)
         IN  (IF x[1] < 0 THEN <<"-">> ELSE <<>>)
             \o NatDigits(a \div x[2]) \o <<".">>
             \o (IF fr = <<>> THEN <<"0">> ELSE fr)

\* The number an unsigned decimal text denotes: digits with at most one
\* ".", at least one digit; anything else is unparsable (NaN).
ParseUnsigned(s) ==
    LET dots == {i \in DOMAIN s : s[i] = "."}
    IN  IF \/ \E i \in DOMAIN s : ~IsDigit(s[i]) /\ s[i] # "."
           \/ Cardinality(dots) > 1
           \/ Len(s) = Cardinality(dots)
        THEN NaN
        ELSE LET p  == IF dots = {} THEN Len(s) + 1 ELSE CHOOSE i \in dots : TRUE
                 ip == SubSeq(s, 1, p - 1)
                 fp == SubSeq(s, p + 1, Len(s))
             IN  Norm(DigitsVal(ip, Len(ip)) * Pow10(Len(fp)) + DigitsVal(fp, Len(fp)),
                      Pow10(Len(fp)))

\* pd.to_numeric(text, errors="coerce") over the texts of the model: "nan",
\* "inf", an optional "-" and a decimal number; every other text is NaN.
ParseNumeric(s) ==
    IF s = <<"n", "a", "n">> THEN NaN
    ELSE IF s = <<"i", "n", "f">> THEN PosInf
    ELSE IF s = <<"-", "i", "n", "f">> THEN NegInf
    ELSE IF s # <<>> /\ s[1] = "-" THEN FNeg(ParseUnsigned(Tail(s)))
    ELSE ParseUnsigned(s)

\* Series.str.replace("%", "", regex=False): every "%" is removed.
StripPercent(s) == SelectSeq(s, LAMBDA c : c # "%")

(* -------------------------------- cells ------------------------------- *)

\* A cell of a table: a float ("num"), a text that is parsed character by
\* character ("str"), a whole Date/Time text ("txt"), a datetime in
\* seconds since 2025-01-01 00:00:00 ("ts") or a column name ("name").
\* A missing value is the float NaN; a missing datetime is NaT.
F(x) == [t |-> "num", v |-> x]

S(chars) == [t |-> "str", v |-> chars]

Txt(str) == [t |-> "txt", v |-> str]

Ts(x) == [t |-> "ts", v |-> x]

NameCell(c) == [t |-> "name", v |-> c]

NA == F(NaN)

NaT == Ts(NaN)

\* DataFrame.isna on one cell.
isna(cell) == cell.t \in {"num", "ts"} /\ IsNaN(cell.v)

\* .astype(str) on a cell of a parsed column.
astype_str(cell) == IF cell.t = "num" THEN S(AsStr(cell.v)) ELSE cell

\* pd.to_numeric(errors="coerce") on one cell.
to_numeric(cell) ==
    IF cell.t = "str" THEN F(ParseNumeric(cell.v))
    ELSE IF cell.t = "txt" THEN NA          \* a date or a time is no number
    ELSE cell

\* .astype(str) on a 'Date' or 'Time' cell: its text, "nan" when missing.
DateTimeText(cell) == IF cell.t = "txt" THEN cell.v ELSE "nan"

\* Seconds from 2025-01-01 to the day a date text names; -1 when
\* the text is no date.
DateSeconds(d) ==
    CASE d = "2024-12-31" -> 0 - 86400
      [] d = "2025-01-01" -> 0
      [] d = "2025-01-02" -> 86400
      [] OTHER -> -1

\* Seconds into the day a time text names; -1 when the text is no time.
TimeSeconds(t) ==
    CASE t = "00:00:00" -> 0
      [] t = "00:00:01" -> 1
      [] t = "00:00:05" -> 5
      [] t = "00:01:00" -> 60
      [] OTHER -> -1

\* pd.to_datetime(date + " " + time, errors="coerce") over the texts of the
\* model: NaT unless both parts are recognised.
to_datetime(d, t) ==
    IF DateSeconds(d) = -1 \/ TimeSeconds(t) = -1 THEN NaT
    ELSE Ts(Num(DateSeconds(d) + TimeSeconds(t)))

\* pd.date_range("2025-01-01", periods=n, freq="S"): one per second.
date_range(n) == [i \in 1..n |-> Ts(Num(i - 1))]

(* ------------------------------- tables ------------------------------- *)

HasCol(df, c) == \E k \in DOMAIN df.cols : df.cols[k] = c

\* df[c] = vals: replaces the column in place, or appends a new one.
SetCol(df, c, vals) ==
    [n    |-> df.n,
     cols |-> IF HasCol(df, c) THEN df.cols ELSE Append(df.cols, c),
     v    |-> (c :> vals) @@ df.v]

\* The floats of a numeric column.
Col(df, c) == [i \in 1..df.n |-> df.v[c][i].v]

\* df[c] = a Series of floats.
SetNum(df, c, xs) == SetCol(df, c, [i \in 1..df.n |-> F(xs[i])])

\* Series.ffill(): a missing cell takes the nearest earlier valid one.
ffill(s) ==
    LET f[i \in 0..Len(s)] ==
            IF i = 0 THEN <<>>
            ELSE Append(f[i - 1],
                        IF isna(s[i]) /\ i > 1 THEN f[i - 1][i - 1] ELSE s[i])
    IN  f[Len(s)]

\* Series.bfill(): a missing cell takes the nearest later valid one.
bfill(s) ==
    LET n == Len(s)
        b[i \in 1..(n + 1)] ==
            IF i = n + 1 THEN <<>>
            ELSE <<IF isna(s[i]) /\ i < n THEN b[i + 1][1] ELSE s[i]>> \o b[i + 1]
    IN  b[1]

\* The fill in the wrong order: backward first, then forward.
bfill_ffill(df) ==
    [df EXCEPT !.v = [c \in DOMAIN df.v |-> ffill(bfill(df.v[c]))]]

\* DataFrame.ffill().bfill(): every column, forward then backward.
ffill_bfill(df) ==
    [df EXCEPT !.v = [c \in DOMAIN df.v |-> bfill(ffill(df.v[c]))]]

(* --------------------------- sanitize_bms_csv ------------------------- *)

\* Lines 9-19: the timestamp column, parsed from Date + Time when both
\* columns exist and at least one row parses, otherwise synthesised.
WithTimestamp(df) ==
    IF HasCol(df, "Date") /\ HasCol(df, "Time")
    THEN LET ts == [i \in 1..df.n |->
                       to_datetime(DateTimeText(df.v["Date"][i]),
                                   DateTimeText(df.v["Time"][i]))]
         IN  IF \E i \in 1..df.n : ~isna(ts[i])
             THEN SetCol(df, "timestamp", ts)
             ELSE SetCol(df, "timestamp", date_range(df.n))
    ELSE SetCol(df, "timestamp", date_range(df.n))

\* Lines 22-28: "%" is stripped from Soc, which is then parsed.
WithSocCleanup(df) ==
    IF HasCol(df, "Soc")
    THEN SetCol(df, "Soc",
                [i \in 1..df.n |->
                    to_numeric(S(StripPercent(astype_str(df.v["Soc"][i]).v)))])
    ELSE df

\* The coercion with Date and Time left out of the exclusion list.
WithNumericAll(df) ==
    [df EXCEPT !.v = [c \in DOMAIN df.v |->
        IF c = "timestamp" THEN df.v[c]
        ELSE [i \in 1..df.n |-> to_numeric(df.v[c][i])]]]

\* Lines 31-33: every column but Date, Time and timestamp is parsed.
WithNumeric(df) ==
    [df EXCEPT !.v = [c \in DOMAIN df.v |->
        IF c \in {"Date", "Time", "timestamp"} THEN df.v[c]
        ELSE [i \in 1..df.n |-> to_numeric(df.v[c][i])]]]

sanitize_bms_csv(df) == ffill_bfill(WithNumeric(WithSocCleanup(WithTimestamp(df))))

(* --------------------------- engineer_features ------------------------ *)

\* The channel names live_bms_stream writes.
CellNames ==
    <<"Cell1", "Cell2", "Cell3", "Cell4", "Cell5", "Cell6", "Cell7", "Cell8",
      "Cell9", "Cell10", "Cell11", "Cell12", "Cell13", "Cell14", "Cell15", "Cell16",
      "Cell17", "Cell18", "Cell19", "Cell20", "Cell21", "Cell22", "Cell23", "Cell24">>

TempNames == <<"Temp1", "Temp2", "Temp3", "Temp4">>

\* c.startswith(prefix): the first len(prefix) characters of c are prefix
\* (case-sensitive, so "cell_min" and "temp_max" are no channels, while
\* "Cell25", "Cellular" and "Temperature" are).
startswith(c, prefix) ==
    /\ Len(c) >= Len(prefix)
    /\ SubSeq(c, 1, Len(prefix)) = prefix

\* [c for c in df.columns if c.startswith(prefix)], in column order.
PrefixCols(df, prefix) == SelectSeq(df.cols, LAMBDA c : startswith(c, prefix))

\* The floats of row i in the columns cs.
RowVals(df, cs, i) == [k \in 1..Len(cs) |-> df.v[cs[k]][i].v]

\* idxmax in place of idxmin: the first column holding the row's maximum.
IdxMax(df, cs, i) ==
    LET xs == [k \in 1..Len(cs) |-> df.v[cs[k]][i].v]
        m  == SkipnaMax(xs)
    IN  IF IsNaN(m) THEN NA
        ELSE NameCell(cs[CHOOSE k \in 1..Len(cs) :
                            /\ FEq(xs[k], m)
                            /\ \A j \in 1..(k - 1) : ~FEq(xs[j], m)])

\* DataFrame.idxmin(axis=1) on one row: the first column holding the row's
\* minimum, NaN entries skipped; NaN when the row holds no value.
IdxMin(df, cs, i) ==
    LET xs == RowVals(df, cs, i)
        m  == SkipnaMin(xs)
    IN  IF IsNaN(m) THEN NA
        ELSE NameCell(cs[CHOOSE k \in 1..Len(cs) :
                            /\ FEq(xs[k], m)
                            /\ \A j \in 1..(k - 1) : ~FEq(xs[j], m)])

\* The integer square root of n, searched between lo and hi.
RECURSIVE ISqrt(_, _, _)
ISqrt(n, lo, hi) ==
    IF lo >= hi THEN lo
    ELSE LET mid == (lo + hi + 1) \div 2
         IN  IF mid * mid <= n THEN ISqrt(n, mid, hi) ELSE ISqrt(n, lo, mid - 1)

\* The irrational square root of the positive rational n/d (lowest terms),
\* kept exactly: <<n, d, 2>> is the positive real whose square is n/d.
Surd(n, d) == <<n, d, 2>>

\* The square root of a float: NaN for NaN and negative values; the exact
\* root otherwise, a rational when numerator and denominator are squares and
\* a Surd when not (the code holds the double nearest to it: for 50 the
\* model holds <<50, 1, 2>>, the code 7.0710678118654755).
FSqrt(a) ==
    IF IsNaN(a) \/ a[1] < 0 THEN NaN
    ELSE IF IsInf(a) THEN a
    ELSE LET \* 46340 is the largest root of a 32-bit integer
             rn == ISqrt(a[1], 0, 46340)
             rd == ISqrt(a[2], 0, 46340)
         IN  IF rn * rn = a[1] /\ rd * rd = a[2] THEN Norm(rn, rd)
             ELSE Surd(a[1], a[2])

\* DataFrame.std(axis=1) on one row (ddof = 1, NaN entries skipped): the
\* square root of the sample variance, NaN with fewer than two values.
SkipnaStd(xs) ==
    LET t  == SelectNotNa(xs)
        mu == SkipnaMean(xs)
        sq == [k \in 1..Len(t) |-> FMul(FSub(t[k], mu), FSub(t[k], mu))]
    IN  IF Len(t) < 2 THEN NaN
        ELSE FSqrt(FDiv(FoldSum(sq, Len(t)), Num(Len(t) - 1)))

\* Series.cumsum(): the running sum; a NaN row stays NaN and is skipped.
CumSum(s) ==
    LET acc[i \in 0..Len(s)] ==
            IF i = 0 THEN Num(0)
            ELSE IF IsNaN(s[i]) THEN acc[i - 1] ELSE FAdd(acc[i - 1], s[i])
    IN  [i \in 1..Len(s) |-> IF IsNaN(s[i]) THEN NaN ELSE acc[i]]

\* pd.api.types.is_datetime64_any_dtype(df["timestamp"]).
is_datetime64_any_dtype(col) == \A i \in DOMAIN col : col[i].t = "ts"

\* Lines 43-48: seconds since the previous row, 1 in the first row and
\* wherever the difference is below 1.
DtColumn(df) ==
    LET dt == IF is_datetime64_any_dtype(df.v["timestamp"])
              THEN Diff(Col(df, "timestamp"))
              ELSE [i \in 1..df.n |-> Num(1)]
    IN  [i \in 1..df.n |->
            LET x == IF IsNaN(dt[i]) THEN Num(1) ELSE dt[i]
            IN  IF FLt(x, Num(1)) THEN Num(1) ELSE x]

\* Lines 51-53: power, energy_Wh, energy_throughput.
WithPower(df) ==
    LET d0    == SetNum(df, "dt", DtColumn(df))
        pv    == Col(df, "Pack Vol")
        cu    == Col(df, "Curent")
        power == [i \in 1..df.n |-> FMul(pv[i], cu[i])]
        d1    == SetNum(d0, "power", power)
        dtc   == Col(d0, "dt")
        wh    == [i \in 1..df.n |-> FDiv(FMul(power[i], dtc[i]), Num(3600))]
        d2    == SetNum(d1, "energy_Wh", wh)
    IN  SetNum(d2, "energy_throughput", CumSum([i \in 1..df.n |-> FAbs(wh[i])]))

\* Lines 56-61: cell_min, cell_max, cell_diff, cell_std, weakest_cell.
WithCells(df) ==
    LET cell_cols == PrefixCols(df, "Cell")
        mn == [i \in 1..df.n |-> SkipnaMin(RowVals(df, cell_cols, i))]
        mx == [i \in 1..df.n |-> SkipnaMax(RowVals(df, cell_cols, i))]
        d1 == SetNum(df, "cell_min", mn)
        d2 == SetNum(d1, "cell_max", mx)
        d3 == SetNum(d2, "cell_diff", [i \in 1..df.n |-> FSub(mx[i], mn[i])])
        d4 == SetNum(d3, "cell_std",
                     [i \in 1..df.n |-> SkipnaStd(RowVals(df, cell_cols, i))])
    IN  SetCol(d4, "weakest_cell", [i \in 1..df.n |-> IdxMin(df, cell_cols, i)])

\* Lines 64-67: temp_mean, temp_max, temp_diff.
WithThermal(df) ==
    LET temp_cols == PrefixCols(df, "Temp")
        mx == [i \in 1..df.n |-> SkipnaMax(RowVals(df, temp_cols, i))]
        mn == [i \in 1..df.n |-> SkipnaMin(RowVals(df, temp_cols, i))]
        d1 == SetNum(df, "temp_mean",
                     [i \in 1..df.n |-> SkipnaMean(RowVals(df, temp_cols, i))])
        d2 == SetNum(d1, "temp_max", mx)
    IN  SetNum(d2, "temp_diff", [i \in 1..df.n |-> FSub(mx[i], mn[i])])

\* Lines 70-73: capacity_ratio, 1.0 without both capacity columns.
WithCapacity(df) ==
    IF HasCol(df, "Rem. Ah") /\ HasCol(df, "Full Cap")
    THEN LET rem == Col(df, "Rem. Ah")
             cap == Col(df, "Full Cap")
         IN  SetNum(df, "capacity_ratio", [i \in 1..df.n |-> FDiv(rem[i], cap[i])])
    ELSE SetNum(df, "capacity_ratio", [i \in 1..df.n |-> Num(1)])

\* Lines 76-81: one row's health score from its spreads, the table-wide
\* maximum spreads and its capacity ratio.
HealthScore(cd, cdmax, td, tdmax, cr) ==
    Clip(FSub(FSub(FSub(Num(100), FMul(Num(35), FDiv(cd, cdmax))),
                   FMul(Num(35), FDiv(td, tdmax))),
              FMul(Num(30), FSub(Num(1), cr))),
         Num(0), Num(100))

WithHealth(df) ==
    LET cd    == Col(df, "cell_diff")
        td    == Col(df, "temp_diff")
        cr    == Col(df, "capacity_ratio")
        cdmax == SkipnaMax(cd)
        tdmax == SkipnaMax(td)
    IN  SetNum(df, "health_score",
               [i \in 1..df.n |-> HealthScore(cd[i], cdmax, td[i], tdmax, cr[i])])

\* The filter that drops the negative differences too.
DropNonPositive(s) == [i \in 1..Len(s) |-> IF FLe(s[i], Num(0)) THEN NaN ELSE s[i]]

\* Series.replace(0, np.nan).
ReplaceZero(s) == [i \in 1..Len(s) |-> IF FEq(s[i], Num(0)) THEN NaN ELSE s[i]]

\* Line 84: the differences of the rolling 10-row mean of 100 - health.
Degradation(hs) ==
    Diff(RollingMean([i \in 1..Len(hs) |-> FSub(Num(100), hs[i])], 10))

\* Line 85: the mean of the differences that are not 0.
DegradationRate(hs) == SkipnaMean(ReplaceZero(Degradation(hs)))

\* Lines 86-89: rul_estimate, NaN in every row without a positive rate.
WithRul(df) ==
    LET hs   == Col(df, "health_score")
        rate == DegradationRate(hs)
    IN  IF notna(rate) /\ FGt(rate, Num(0))
        THEN SetNum(df, "rul_estimate",
                    [i \in 1..df.n |-> FDiv(FSub(hs[i], Num(60)), rate)])
        ELSE SetNum(df, "rul_estimate", [i \in 1..df.n |-> NaN])

engineer_features(df) ==
    WithRul(WithHealth(WithCapacity(WithThermal(WithCells(WithPower(df))))))

(* --------------------------- live_bms_stream -------------------------- *)

\* One row of synthetic telemetry.  draw holds what the random generator
\* returned: pv, cu (Gaussian noise), soc, rem (uniform), cycle (randint),
\* cell[i] and temp[i] (Gaussian noise per channel).
live_bms_stream(draw) ==
    LET base == <<"Pack Vol", "Curent", "Soc", "Rem. Ah", "Full Cap", "Cycle">>
        one(x) == <<F(x)>>
    IN  [n    |-> 1,
         cols |-> base \o CellNames \o TempNames,
         v    |-> [c \in Range(base) \cup Range(CellNames) \cup Range(TempNames) |->
                    IF c = "Pack Vol" THEN one(FAdd(Num(48), draw.pv))
                    ELSE IF c = "Curent" THEN one(FAdd(Num(5), draw.cu))
                    ELSE IF c = "Soc" THEN one(draw.soc)
                    ELSE IF c = "Rem. Ah" THEN one(draw.rem)
                    ELSE IF c = "Full Cap" THEN one(Num(54000))
                    ELSE IF c = "Cycle" THEN one(draw.cycle)
                    ELSE IF startswith(c, "Cell")
                    THEN one(FAdd(Num(3500),
                                  draw.cell[CHOOSE k \in 1..24 : CellNames[k] = c]))
                    ELSE one(FAdd(Num(30),
                                  draw.temp[CHOOSE k \in 1..4 : TempNames[k] = c]))]]

(* ------------------------------ the inputs ---------------------------- *)

\* Rows of the longest uploaded telemetry table.
MaxRows == 12

\* Uploaded telemetry repeats a pattern of this many rows.
Period == 3

\* Rows of the longest uploaded table with unparsable fields.
MaxDirtyRows == 3

\* Rows of the all-equal-channel scenario table.
ScenarioRows == 20

\* What the random generator may return in one call of live_bms_stream:
\* odd and even channels share a noise value each.
LiveDraws ==
    {[pv |-> Norm(1, 20), cu |-> Norm(-3, 10), soc |-> Num(65), rem |-> rem,
      cycle |-> Num(120),
      cell |-> [k \in 1..24 |-> IF k % 2 = 1 THEN ca ELSE cb],
      temp |-> [k \in 1..4 |-> IF k % 2 = 1 THEN ta ELSE tb]] :
        rem \in {Num(30000), Num(45000)},
        ca \in {Num(0), Num(6)}, cb \in {Num(0), Num(-6)},
        ta \in {Num(0), Norm(6, 5)}, tb \in {Num(0), Norm(-6, 5)}}

\* Further columns of an upload that the prefix tests select as channels.
ExtraChannels == <<"Cell25", "Cellular", "Temp5", "Temperature">>

\* The column names an uploaded table may use.
ColumnNames ==
    {"Date", "Time", "timestamp", "Soc", "Pack Vol", "Curent", "Rem. Ah", "Full Cap",
     "Cycle"} \cup Range(CellNames) \cup Range(TempNames) \cup Range(ExtraChannels)

\* A table from its column names and a cell for every column and row.
MakeTable(n, cols, cell) ==
    [n |-> n, cols |-> cols, v |-> [c \in Range(cols) |-> [i \in 1..n |-> cell[c, i]]]]

\* The three kinds of telemetry rows of an upload: balanced, mildly and
\* strongly imbalanced.
RowKind(k, c) ==
    CASE c = "Pack Vol" -> F(Num(48))
      [] c = "Curent"   -> F(Num(k + 3))
      [] c = "Soc"      -> F(Num(90 - 10 * k))
      [] c = "Cycle"    -> F(Num(100))
      [] c = "Cell1"    -> F(Num(IF k = 3 THEN 3480 ELSE 3500))
      [] c = "Cell2"    -> F(Num(IF k = 2 THEN 3490 ELSE 3500))
      [] c = "Temp1"    -> F(Num(IF k = 3 THEN 32 ELSE 30))
      [] c = "Temp2"    -> F(Num(IF k = 2 THEN 31 ELSE 30))
      [] c = "Rem. Ah"  -> F(Num(IF k = 1 THEN 54000 ELSE IF k = 2 THEN 45000 ELSE 30000))
      [] c = "Full Cap" -> F(Num(54000))
      [] c = "Cell25"   -> F(Num(IF k = 2 THEN 3485 ELSE 3500))
      [] c = "Temp5"    -> F(Num(IF k = 2 THEN 33 ELSE 30))
      [] c = "Cellular"    -> F(Num(3500))
      [] c = "Temperature" -> F(Num(30))

\* read_csv of an uploaded telemetry file: n rows that repeat a pattern of
\* row kinds, without the capacity columns, with them, or with them and the
\* further channels.
FeatureFiles ==
    {MakeTable(n,
               <<"Soc", "Pack Vol", "Curent">>
                 \o (IF layout = "plain" THEN <<>> ELSE <<"Rem. Ah", "Full Cap">>)
                 \o <<"Cycle", "Cell1", "Cell2", "Temp1", "Temp2">>
                 \o (IF layout = "extra" THEN ExtraChannels ELSE <<>>),
               [c \in ColumnNames, i \in 1..n |-> RowKind(pat[((i - 1) % Period) + 1], c)]) :
        n \in 1..MaxRows, pat \in [1..Period -> 1..3],
        layout \in {"plain", "capacity", "extra"}}

\* The table of the end-to-end scenario: every cell channel 3500, every
\* temperature channel 30, no capacity columns.
ScenarioFile ==
    MakeTable(ScenarioRows,
              <<"Soc", "Pack Vol", "Curent", "Cycle">> \o CellNames \o TempNames,
              [c \in ColumnNames, i \in 1..ScenarioRows |->
                  IF c \in Range(CellNames) THEN F(Num(3500))
                  ELSE IF c \in Range(TempNames) THEN F(Num(30))
                  ELSE RowKind(1, c)])

\* The fields of a numeric column of a malformed file: a number, a
\* percentage text, a text that is no number, a missing field.
DirtyTokens == {F(Num(3505)), S(<<"7", "5", "%">>), S(<<"a", "b", "c">>), NA}

\* The fields of a Time column: three times of day, a text that is no
\* time, a missing field.
TimeTokens == {Txt("00:00:00"), Txt("00:00:05"), Txt("00:01:00"), Txt("bad"), NA}

CleanCell(c, i) ==
    CASE c = "Date"      -> Txt("2025-01-02")
      [] c = "Time"      -> Txt(IF i = 1 THEN "00:00:00" ELSE IF i = 2 THEN "00:00:01"
                                ELSE IF i = 3 THEN "00:00:05" ELSE "00:01:00")
      [] c = "Cell1"     -> F(Num(3500))
      [] c = "Cell2"     -> F(Num(3510))
      [] c = "Temp1"     -> F(Num(30))
      [] c = "Temp2"     -> F(Num(31))
      [] c = "Cell25"    -> F(Num(3490))
      [] c = "Cellular"  -> F(Num(IF i = 2 THEN 3480 ELSE 3500))
      [] c = "Temp5"     -> F(Num(29))
      [] OTHER           -> RowKind(1, c)

DirtyCols == <<"Soc", "Pack Vol", "Curent", "Cycle", "Cell1", "Cell2", "Temp1", "Temp2">>

\* The columns of a malformed file and the group of them that holds
\* arbitrary fields.
DirtyLayouts ==
    {<<DirtyCols, {"Soc"}>>, <<DirtyCols, {"Cell1"}>>, <<DirtyCols, {"Cell1", "Cell2"}>>,
     <<DirtyCols \o ExtraChannels, {"Cell1"}>>,
     <<DirtyCols \o ExtraChannels, {"Cell1", "Cell2", "Cell25", "Cellular"}>>}

\* read_csv of a malformed file: one group of columns holds arbitrary
\* fields, the other columns are clean.
NumericDirtyFiles ==
    {MakeTable(n, lay[1],
               [c \in ColumnNames, i \in 1..n |->
                   IF c \in lay[2] THEN pat[i] ELSE CleanCell(c, i)]) :
        n \in 1..MaxDirtyRows, pat \in [1..MaxDirtyRows -> DirtyTokens],
        lay \in DirtyLayouts}

\* read_csv of a file with a Time column of arbitrary fields and a Date
\* column that is absent, complete, or missing in its first row.
TimeDirtyFiles ==
    {MakeTable(n,
               (IF date = "absent" THEN <<>> ELSE <<"Date">>) \o <<"Time">> \o DirtyCols,
               [c \in ColumnNames, i \in 1..n |->
                   IF c = "Time" THEN pat[i]
                   ELSE IF c = "Date" /\ date = "first missing" /\ i = 1 THEN NA
                   ELSE CleanCell(c, i)]) :
        n \in 1..MaxDirtyRows, pat \in [1..MaxDirtyRows -> TimeTokens],
        date \in {"absent", "complete", "first missing"}}

\* A clean table that already has a timestamp column: the one the
\* sanitizer derives, or another strictly increasing one.
StampedFiles ==
    {MakeTable(n,
               (IF dated THEN <<"Date", "Time">> ELSE <<>>) \o <<"timestamp">> \o DirtyCols,
               [c \in ColumnNames, i \in 1..n |->
                   IF c = "timestamp"
                   THEN (IF derived
                         THEN (IF dated
                               THEN to_datetime(CleanCell("Date", i).v, CleanCell("Time", i).v)
                               ELSE date_range(n)[i])
                         ELSE Ts(Num(3600 * i)))
                   ELSE CleanCell(c, i)]) :
        n \in 1..MaxDirtyRows, dated \in BOOLEAN, derived \in BOOLEAN}

DirtyFiles == NumericDirtyFiles \cup TimeDirtyFiles \cup StampedFiles

(* ------------------------------- app.py ------------------------------- *)

VARIABLES
    pc,        \* where the script run is: "load", "sanitize", "power", "cells",
               \* "thermal", "capacity", "health", "rul" (the blocks of
               \* engineer_features), "window", "section", "footer", "done"
    nav,       \* the section chosen in the sidebar ("" until the script branches on it)
    source,    \* the data source chosen in the sidebar
    window,    \* the time window chosen in the sidebar
    raw,       \* the table read from the source
    clean,     \* sanitize_bms_csv(raw)
    work,      \* the local df of engineer_features while it runs
    df_full,   \* engineer_features(clean)
    df,        \* df_full restricted to the time window
    latest,    \* the last row of df
    fw,        \* the script's name fw: bound or not, and its value
    shown,     \* the numbers the section rendered
    err        \* the exception that ended the run, "" when none

vars == <<pc, nav, source, window, raw, clean, work, df_full, df, latest, fw, shown, err>>

Sections ==
    {"Overview", "How Analysis Works", "Key Findings", "Time-Based Analysis",
     "Prediction", "Recommendations", "Assumptions"}

NoTable == [n |-> 0, cols |-> <<>>, v |-> <<>>]

Unbound == [bound |-> FALSE, v |-> NaN]

Bound(x) == [bound |-> TRUE, v |-> x]

\* DataFrame.tail(k): the last k rows.
tail(d, k) ==
    IF d.n <= k THEN d
    ELSE [n |-> k, cols |-> d.cols,
          v |-> [c \in DOMAIN d.v |-> SubSeq(d.v[c], d.n - k + 1, d.n)]]

\* DataFrame.iloc[-1]: the last row, by column name.
iloc_last(d) == [c \in DOMAIN d.v |-> d.v[c][d.n]]

\* Python's max(a, b): b only when b > a, so a NaN first argument stays.
PyMax(a, b) == IF FGt(b, a) THEN b ELSE a

\* Python's int(x) on a finite float: truncation toward zero.
PyInt(x) == Sign(x[1]) * (Abs(x[1]) \div x[2])

\* Line 162: the last value of the rolling 10-row mean of the differences
\* of 100 - health_score.
LastDegRate(d) ==
    LET hs == Col(d, "health_score")
        x  == [i \in 1..d.n |-> FSub(Num(100), hs[i])]
    IN  RollingMean(Diff(x), 10)[d.n]

\* Lines 163-164: the fallback 0.15 for an undefined or non-positive rate.
DegRateOrFallback(r) == IF IsNaN(r) \/ FLe(r, Num(0)) THEN Norm(15, 100) ELSE r

\* The failure window without its floor at 0.
FailureWindowNoFloor(health, deg_rate) == FDiv(FSub(health, Num(55)), deg_rate)

\* Line 167: the failure window.
FailureWindow(health, deg_rate) ==
    PyMax(FDiv(FSub(health, Num(55)), deg_rate), Num(0))

Init ==
    /\ pc = "load"
    /\ nav = ""
    /\ source = ""
    /\ window = ""
    /\ raw = NoTable
    /\ clean = NoTable
    /\ work = NoTable
    /\ df_full = NoTable
    /\ df = NoTable
    /\ latest = <<>>
    /\ fw = Unbound
    /\ shown = <<>>
    /\ err = ""

\* Lines 51-57, a file was uploaded: raw = pd.read_csv(f).
UploadCsv(files) ==
    /\ pc = "load"
    /\ \E f \in files : raw' = f
    /\ source' = "Upload CSV"
    /\ pc' = "sanitize"
    /\ UNCHANGED <<nav, window, clean, work, df_full, df, latest, fw, shown, err>>

\* Lines 53-56, no file yet: st.stop() ends the run.
UploadMissing ==
    /\ pc = "load"
    /\ source' = "Upload CSV"
    /\ pc' = "done"
    /\ UNCHANGED <<nav, window, raw, clean, work, df_full, df, latest, fw, shown, err>>

\* Lines 58-59: raw = live_bms_stream().
LiveDemo ==
    /\ pc = "load"
    /\ \E draw \in LiveDraws : raw' = live_bms_stream(draw)
    /\ source' = "Live BMS (Demo)"
    /\ pc' = "sanitize"
    /\ UNCHANGED <<nav, window, clean, work, df_full, df, latest, fw, shown, err>>

\* Line 61, the inner call.
Sanitize ==
    /\ pc = "sanitize"
    /\ clean' = sanitize_bms_csv(raw)
    /\ pc' = "power"
    /\ UNCHANGED <<nav, source, window, raw, work, df_full, df, latest, fw, shown, err>>

\* Line 61, the outer call, block by block: engineer_features runs its
\* blocks in this order on its local copy and returns the last table.
EngineerBlock(at, table, then) ==
    /\ pc = at
    /\ work' = table
    /\ pc' = then
    /\ UNCHANGED <<nav, source, window, raw, clean, df_full, df, latest, fw, shown, err>>

EngineerPower == EngineerBlock("power", WithPower(clean), "cells")

EngineerCells == EngineerBlock("cells", WithCells(work), "thermal")

EngineerThermal == EngineerBlock("thermal", WithThermal(work), "capacity")

EngineerCapacity == EngineerBlock("capacity", WithCapacity(work), "health")

EngineerHealth == EngineerBlock("health", WithHealth(work), "rul")

EngineerRul ==
    /\ pc = "rul"
    /\ df_full' = WithRul(work)
    /\ work' = NoTable
    /\ pc' = "window"
    /\ UNCHANGED <<nav, source, window, raw, clean, df, latest, fw, shown, err>>

Engineer ==
    \/ EngineerPower
    \/ EngineerCells
    \/ EngineerThermal
    \/ EngineerCapacity
    \/ EngineerHealth
    \/ EngineerRul

\* Lines 64-74: the time window and the latest row.
TimeWindow ==
    /\ pc = "window"
    /\ \E w \in {"Full Data", "Last 7 Days", "Last 24 Hours"} :
          /\ window' = w
          /\ df' = IF w = "Last 24 Hours" THEN tail(df_full, 1440)
                   ELSE IF w = "Last 7 Days" THEN tail(df_full, 10080)
                   ELSE df_full
    /\ latest' = iloc_last(df')
    /\ pc' = "section"
    /\ UNCHANGED <<nav, source, raw, clean, work, df_full, fw, shown, err>>

\* Lines 85-96.
Overview ==
    /\ pc = "section"
    /\ nav' = "Overview"
    /\ shown' = <<df.n, source, window>>
    /\ pc' = "footer"
    /\ UNCHANGED <<source, window, raw, clean, work, df_full, df, latest, fw, err>>

\* Lines 99-118.
HowAnalysisWorks ==
    /\ pc = "section"
    /\ nav' = "How Analysis Works"
    /\ shown' = <<>>
    /\ pc' = "footer"
    /\ UNCHANGED <<source, window, raw, clean, work, df_full, df, latest, fw, err>>

\* Lines 121-135.
KeyFindings ==
    /\ pc = "section"
    /\ nav' = "Key Findings"
    /\ shown' = [cell_growth |-> SkipnaMean(Diff(Col(df, "cell_diff"))),
                 temp_avg    |-> SkipnaMean(Col(df, "temp_max")),
                 health_drop |-> FSub(Col(df, "health_score")[1],
                                      Col(df, "health_score")[df.n])]
    /\ pc' = "footer"
    /\ UNCHANGED <<source, window, raw, clean, work, df_full, df, latest, fw, err>>

\* Lines 138-158: three line charts of df.
TimeBasedAnalysis ==
    /\ pc = "section"
    /\ nav' = "Time-Based Analysis"
    /\ shown' = <<"health_score", "cell_diff", "temp_max">>
    /\ pc' = "footer"
    /\ UNCHANGED <<source, window, raw, clean, work, df_full, df, latest, fw, err>>

\* Lines 161-181.  int() of NaN raises ValueError, of an infinity
\* OverflowError; the run ends there.
Prediction ==
    /\ pc = "section"
    /\ nav' = "Prediction"
    /\ LET deg_rate == DegRateOrFallback(LastDegRate(df))
           health   == latest["health_score"].v
           f        == FailureWindow(health, deg_rate)
           low      == FMul(f, Norm(8, 10))
           high     == FMul(f, Norm(13, 10))
       IN  /\ fw' = Bound(f)
           /\ IF IsFinite(low) /\ IsFinite(high)
              THEN /\ shown' = [deg_rate |-> deg_rate, health |-> health,
                                low |-> PyInt(low), high |-> PyInt(high)]
                   /\ err' = ""
                   /\ pc' = "footer"
              ELSE /\ shown' = [deg_rate |-> deg_rate, health |-> health]
                   /\ err' = IF IsNaN(low) \/ IsNaN(high) THEN "ValueError"
                             ELSE "OverflowError"
                   /\ pc' = "done"
    /\ UNCHANGED <<source, window, raw, clean, work, df_full, df, latest>>

\* Lines 184-211.  Reading a name that no statement of the run has bound
\* raises NameError; the run ends there.
Recommendations ==
    /\ pc = "section"
    /\ nav' = "Recommendations"
    /\ IF fw.bound
       THEN LET a1 == IF FLt(fw.v, Num(50))
                      THEN <<"Inspect weakest cell and reduce load stress immediately">>
                      ELSE <<>>
                a2 == IF FGt(latest["temp_max"].v, Num(55))
                      THEN <<"Improve thermal dissipation during peak operation">>
                      ELSE <<>>
                a3 == IF FGt(latest["cell_diff"].v, Num(100))
                      THEN <<"Perform cell balancing procedure">>
                      ELSE <<>>
                actions == a1 \o a2 \o a3
            IN  /\ shown' = IF actions = <<>>
                            THEN <<"Continue normal operation and periodic monitoring">>
                            ELSE actions
                /\ err' = ""
                /\ pc' = "footer"
       ELSE /\ shown' = <<>>
            /\ err' = "NameError"
            /\ pc' = "done"
    /\ UNCHANGED <<source, window, raw, clean, work, df_full, df, latest, fw>>

\* Lines 214-225.
Assumptions ==
    /\ pc = "section"
    /\ nav' = "Assumptions"
    /\ shown' = <<>>
    /\ pc' = "footer"
    /\ UNCHANGED <<source, window, raw, clean, work, df_full, df, latest, fw, err>>

\* Lines 228-230: the caption that ends a run.
Footer ==
    /\ pc = "footer"
    /\ pc' = "done"
    /\ UNCHANGED <<nav, source, window, raw, clean, work, df_full, df, latest, fw, shown, err>>

Section ==
    \/ Overview
    \/ HowAnalysisWorks
    \/ KeyFindings
    \/ TimeBasedAnalysis
    \/ Prediction
    \/ Recommendations
    \/ Assumptions

Pipeline == Sanitize \/ Engineer \/ TimeWindow \/ Section \/ Footer

\* A run on live telemetry or on an uploaded telemetry table.
Next ==
    \/ UploadCsv(FeatureFiles \cup {ScenarioFile})
    \/ UploadMissing
    \/ LiveDemo
    \/ Pipeline

Spec == Init /\ [][Next]_vars

\* A run on live telemetry or on an uploaded malformed table.
NextDirty ==
    \/ UploadCsv(DirtyFiles)
    \/ UploadMissing
    \/ LiveDemo
    \/ Pipeline

SpecDirty == Init /\ [][NextDirty]_vars

(* ------------------------------ properties ---------------------------- *)

\* sanitize_bms_csv has just returned clean for raw (neither changes later).
Sanitized == pc = "power"

\* engineer_features has just returned df_full for clean (neither changes
\* later).
Engineered == pc = "window"

Predicted == nav = "Prediction" /\ pc \in {"footer", "done"}

SetMax(T) == CHOOSE x \in T : \A y \in T : y <= x

SetMin(T) == CHOOSE x \in T : \A y \in T : x <= y

\* The table before the fill: the timestamp derived, every field parsed.
Coerced == WithNumeric(WithSocCleanup(WithTimestamp(raw)))

\* The filled value the fill policy asks for in row i of a column: the
\* value itself when valid, else the nearest earlier valid value, else the
\* nearest later one, else still missing.
NearestFill(col, i) ==
    LET before == {j \in 1..(i - 1) : ~isna(col[j])}
        after  == {j \in (i + 1)..Len(col) : ~isna(col[j])}
    IN  IF ~isna(col[i]) THEN col[i]
        ELSE IF before # {} THEN col[SetMax(before)]
        ELSE IF after # {} THEN col[SetMin(after)]
        ELSE col[i]

\* C1: every row of engineer_features' table has a defined health_score in
\* [0, 100], cell_diff >= 0 and temp_diff >= 0, also when all channels are
\* equal in every row.
C1_Bounds ==
    Engineered =>
        \A i \in 1..df_full.n :
            /\ FLe(Num(0), Col(df_full, "health_score")[i])
            /\ FLe(Col(df_full, "health_score")[i], Num(100))
            /\ FLe(Num(0), Col(df_full, "cell_diff")[i])
            /\ FLe(Num(0), Col(df_full, "temp_diff")[i])

\* C2: for the 20-row table with 24 cell channels at 3500, 4 temperature
\* channels at 30 and no capacity columns, every row has cell_diff = 0,
\* temp_diff = 0, capacity_ratio = 1 and health_score = 100.
C2_Scenario ==
    (Engineered /\ raw = ScenarioFile) =>
        \A i \in 1..df_full.n :
            /\ FEq(Col(df_full, "cell_diff")[i], Num(0))
            /\ FEq(Col(df_full, "temp_diff")[i], Num(0))
            /\ FEq(Col(df_full, "capacity_ratio")[i], Num(1))
            /\ FEq(Col(df_full, "health_score")[i], Num(100))

\* C3: in sanitize_bms_csv's table every missing or unparsable entry holds
\* the nearest earlier valid value of its column, else the nearest later
\* one, and stays missing only in a column without a valid value; valid
\* entries keep their value and row.
C3_Fill ==
    Sanitized =>
        /\ clean.n = raw.n
        /\ \A c \in DOMAIN Coerced.v :
              \A i \in 1..clean.n : clean.v[c][i] = NearestFill(Coerced.v[c], i)

\* C3's case: a missing entry between two different valid values took the
\* earlier one.
C3_Witness ==
    /\ Sanitized
    /\ \E c \in DOMAIN Coerced.v :
          \E i \in 2..(clean.n - 1) :
              LET col == Coerced.v[c]
              IN  /\ isna(col[i])
                  /\ ~isna(col[i - 1])
                  /\ ~isna(col[i + 1])
                  /\ col[i - 1] # col[i + 1]
                  /\ clean.v[c][i] = col[i - 1]

\* The row has a value in at least one cell channel.
HasCellValue(d, i) ==
    \E k \in DOMAIN d.cols :
        startswith(d.cols[k], "Cell") /\ ~isna(d.v[d.cols[k]][i])

\* weakest_cell of row i names a cell channel that holds the row's cell_min.
WeakestIsMin(d, i) ==
    LET w == d.v["weakest_cell"][i]
    IN  /\ w.t = "name"
        /\ startswith(w.v, "Cell")
        /\ HasCol(d, w.v)
        /\ FEq(d.v[w.v][i].v, d.v["cell_min"][i].v)

\* C4 as stated: in every row weakest_cell names a cell channel whose value
\* is the row's cell_min.
C4_Original == Engineered => \A i \in 1..df_full.n : WeakestIsMin(df_full, i)

\* C4, amended: in every row with a value in at least one cell channel
\* weakest_cell names a cell channel whose value is the row's cell_min (one
\* of them on a tie); in a row without any cell value weakest_cell and
\* cell_min are both missing.
C4_Amended ==
    Engineered =>
        \A i \in 1..df_full.n :
            IF HasCellValue(df_full, i) THEN WeakestIsMin(df_full, i)
            ELSE isna(df_full.v["weakest_cell"][i]) /\ isna(df_full.v["cell_min"][i])

\* C4's case: two cell channels tie for the minimum and one of them is named.
C4_Witness ==
    /\ Engineered
    /\ \E i \in 1..df_full.n :
          /\ WeakestIsMin(df_full, i)
          /\ \E a, b \in {c \in Range(df_full.cols) : startswith(c, "Cell")} :
                /\ a # b
                /\ FEq(df_full.v[a][i].v, df_full.v["cell_min"][i].v)
                /\ FEq(df_full.v[b][i].v, df_full.v["cell_min"][i].v)

\* An already-clean table: a strictly increasing timestamp column, Date
\* and Time (when present) and every other column fully populated, the
\* other columns numeric.
CleanInput(d) ==
    /\ d.n > 0
    /\ HasCol(d, "timestamp")
    /\ \A i \in 1..d.n : d.v["timestamp"][i].t = "ts" /\ ~isna(d.v["timestamp"][i])
    /\ \A i \in 1..(d.n - 1) : FLt(d.v["timestamp"][i].v, d.v["timestamp"][i + 1].v)
    /\ \A c \in DOMAIN d.v :
          \A i \in 1..d.n :
              /\ ~isna(d.v[c][i])
              /\ c \notin {"Date", "Time", "timestamp"} => d.v[c][i].t = "num"

\* C5 as stated: sanitizing an already-clean table returns the same value
\* in every cell of every column, the timestamp column included.
C5_Original ==
    (Sanitized /\ CleanInput(raw)) =>
        \A c \in DOMAIN raw.v : \A i \in 1..raw.n : clean.v[c][i] = raw.v[c][i]

\* C5, amended: sanitizing an already-clean table returns the same value in
\* every cell of every column but timestamp; the timestamp column is
\* derived again, row i being 2025-01-01 plus i-1 seconds without both Date
\* and Time, and the parsed Date + Time in a row that parses.
C5_Amended ==
    (Sanitized /\ CleanInput(raw)) =>
        /\ DOMAIN clean.v = DOMAIN raw.v
        /\ \A c \in DOMAIN raw.v \ {"timestamp"} :
              \A i \in 1..raw.n : clean.v[c][i] = raw.v[c][i]
        /\ \A i \in 1..raw.n :
              IF HasCol(raw, "Date") /\ HasCol(raw, "Time")
              THEN LET t == to_datetime(DateTimeText(raw.v["Date"][i]),
                                        DateTimeText(raw.v["Time"][i]))
                   IN  ~isna(t) => clean.v["timestamp"][i] = t
              ELSE clean.v["timestamp"][i] = Ts(Num(i - 1))

\* C5's case: an already-clean table with Date and Time was sanitized and
\* its timestamp column was replaced by the parsed one.
C5_Witness ==
    /\ Sanitized
    /\ CleanInput(raw)
    /\ HasCol(raw, "Date")
    /\ raw.n > 1
    /\ clean.v["timestamp"] # raw.v["timestamp"]
    /\ clean.v["Soc"] = raw.v["Soc"]

\* C6: the timestamp column of sanitize_bms_csv's table never decreases
\* along the rows.
C6_Monotonic ==
    Sanitized =>
        \A i \in 1..(clean.n - 1) :
            FLe(clean.v["timestamp"][i].v, clean.v["timestamp"][i + 1].v)

\* C7: the Prediction section always divides by a rate > 0 and ends with a
\* defined failure window fw = max((health - 55) / rate, 0) >= 0 and no error.
C7_FailureWindow ==
    Predicted =>
        /\ err = ""
        /\ FGt(shown.deg_rate, Num(0))
        /\ fw.bound
        /\ FGe(fw.v, Num(0))
        /\ \/ FEq(fw.v, FDiv(FSub(latest["health_score"].v, Num(55)), shown.deg_rate))
           \/ /\ FEq(fw.v, Num(0))
              /\ FLe(FDiv(FSub(latest["health_score"].v, Num(55)), shown.deg_rate), Num(0))

\* The consecutive differences of the rolling 10-row mean of
\* 100 - health_score that satisfy keep, in row order.
KeptDiffs(d, keep(_)) ==
    LET hs  == Col(d, "health_score")
        x   == [i \in 1..d.n |-> FSub(Num(100), hs[i])]
        rm  == RollingMean(x, 10)
        dif == [i \in 1..d.n |-> IF i = 1 THEN NaN ELSE FSub(rm[i], rm[i - 1])]
    IN  SelectSeq(dif, keep)

\* rul_estimate is (health_score - 60) / rate in every row when use holds,
\* and missing in every row otherwise.
RulIs(d, use, rate) ==
    \A i \in 1..d.n :
        LET r  == Col(d, "rul_estimate")[i]
            hs == Col(d, "health_score")[i]
        IN  IF use THEN IsNaN(r) = IsNaN(hs) /\ (~IsNaN(hs) => r = FDiv(FSub(hs, Num(60)), rate))
            ELSE IsNaN(r)

\* C8 as stated: the rate is the average of the strictly positive
\* differences only, and rul_estimate is defined exactly when a positive
\* difference exists.
C8_Original ==
    Engineered =>
        LET pos == KeptDiffs(df_full, LAMBDA x : FGt(x, Num(0)))
        IN  RulIs(df_full, pos # <<>>, SkipnaMean(pos))

\* C8, amended: the rate is the average of the nonzero differences, the
\* negative ones included; rul_estimate = (health_score - 60) / rate is
\* defined exactly when that average exists and is > 0, and is missing in
\* every row otherwise, as in every table of 10 or fewer rows.
C8_Amended ==
    Engineered =>
        LET nz   == KeptDiffs(df_full, LAMBDA x : ~IsNaN(x) /\ x # Num(0))
            rate == IF nz = <<>> THEN NaN ELSE FDiv(FoldSum(nz, Len(nz)), Num(Len(nz)))
        IN  /\ RulIs(df_full, FGt(rate, Num(0)), rate)
            /\ df_full.n <= 10 => \A i \in 1..df_full.n : IsNaN(Col(df_full, "rul_estimate")[i])

\* C8's case: a negative difference is averaged in with a larger positive
\* one and rul_estimate is defined.
C8_Witness ==
    /\ Engineered
    /\ KeptDiffs(df_full, LAMBDA x : FLt(x, Num(0))) # <<>>
    /\ KeptDiffs(df_full, LAMBDA x : FGt(x, Num(0))) # <<>>
    /\ \A i \in 1..df_full.n : ~IsNaN(Col(df_full, "rul_estimate")[i])

\* C9: whichever section is selected, every name the section reads was
\* bound earlier in the run, so the run ends without an error; in
\* Recommendations fw holds the failure window.
C9_NamesBound ==
    (nav # "" /\ pc \in {"footer", "done"}) =>
        /\ err # "NameError"
        /\ nav = "Recommendations" => fw.bound

\* The table in the time window has one row, nonzero cell and temperature
\* spreads and a capacity ratio in [0, 1].
OneRowCase ==
    /\ df.n = 1
    /\ ~IsNaN(latest["cell_diff"].v) /\ latest["cell_diff"].v # Num(0)
    /\ ~IsNaN(latest["temp_diff"].v) /\ latest["temp_diff"].v # Num(0)
    /\ FLe(Num(0), latest["capacity_ratio"].v)
    /\ FLe(latest["capacity_ratio"].v, Num(1))

\* C10: for a one-row table with nonzero cell and temperature spreads and a
\* capacity ratio r in [0, 1], health_score = 30 r <= 30, the degradation
\* rate is undefined and replaced by 0.15, and Prediction's failure window
\* is 0 with the band 0 - 0.
C10_OneRow ==
    (Predicted /\ OneRowCase) =>
        /\ latest["health_score"].v = FMul(Num(30), latest["capacity_ratio"].v)
        /\ FLe(latest["health_score"].v, Num(30))
        /\ IsNaN(LastDegRate(df))
        /\ shown.deg_rate = Norm(3, 20)
        /\ fw = Bound(Num(0))
        /\ err = ""
        /\ shown.low = 0
        /\ shown.high = 0

\* C10's case: Prediction ran on one row of live telemetry with both
\* spreads nonzero.
C10_Witness ==
    /\ Predicted
    /\ OneRowCase
    /\ source = "Live BMS (Demo)"
    /\ pc = "footer"

=============================================================================
